---- MODULE Spec2Model ----
(***************************************************************************)
(* input-remapper: the Preset container (inputremapper/configs/preset.py)  *)
(* over InputEvent (inputremapper/input_event.py).                         *)
(*                                                                         *)
(* A Mapping is a record of its event_combination, its output_symbol and  *)
(* whether it has the combination-changed callback.  The preset's index    *)
(* `_mappings` and its snapshot `_saved_mappings` are dictionaries,        *)
(* modelled as functions: the order of a dictionary is read only by save,  *)
(* to order the entries of the file, and by load, which takes the order of *)
(* the file.  The preset file is a JSON document, modelled by its kind     *)
(* and, for an object, its entries in file order; its keys are strings,    *)
(* modelled as sequences of characters.                                    *)
(***************************************************************************)
EXTENDS Integers, Sequences, FiniteSets, TLC

\* entries of the preset file the preset is constructed over
MaxEntries == 2

None == "None"

\* InputEvent as its event_tuple (type, code, value): two keys going down,
\* EV_KEY 1, KEY_ESC 1 and KEY_1 2, value 1
KeyDown == <<1, 1, 1>>
ModifierDown == <<1, 2, 1>>

\* the digits int() reads
Numbers == 0..9

\* the one preset path that is used
PresetPath == "preset.json"

\* output_symbol of a Mapping: None is the default, and no output at all
Outputs == {"a", None}

-----------------------------------------------------------------------------
(* EventCombination                                                        *)

\* an EventCombination holds no event twice
IsCombination(c) == \A i, j \in 1..Len(c) : i # j => c[i] # c[j]

\* the combinations mappings are given: a key alone, and its chord with a
\* modifier in both orderings
OneKey == <<KeyDown>>
Chord == <<ModifierDown, KeyDown>>
ChordSwapped == <<KeyDown, ModifierDown>>
Combos == {OneKey, Chord, ChordSwapped}

RemoveAt(s, i) == SubSeq(s, 1, i - 1) \o SubSeq(s, i + 1, Len(s))

RECURSIVE PermsFrom(_, _)
RECURSIVE get_permutations(_)
\* the permutations of s that start with s[i], s[i+1], ..., in that order
PermsFrom(s, i) ==
    IF i > Len(s) THEN <<>>
    ELSE LET tails == get_permutations(RemoveAt(s, i))
         IN  [j \in 1..Len(tails) |-> <<s[i]>> \o tails[j]] \o PermsFrom(s, i + 1)

\* EventCombination.get_permutations: every ordering of the events, as a list
get_permutations(s) == IF Len(s) <= 1 THEN <<s>> ELSE PermsFrom(s, 1)

Range(s) == {s[i] : i \in 1..Len(s)}

-----------------------------------------------------------------------------
(* strings: a string is the sequence of its characters                     *)

RECURSIVE str(_)
\* str(n) of a number that is not negative: its decimal digits
str(n) == IF n < 10 THEN <<ToString(n)>> ELSE Append(str(n \div 10), ToString(n % 10))

\* InputEvent.json_str: ",".join([str(type), str(code), str(value)])
json_str(e) == str(e[1]) \o <<",">> \o str(e[2]) \o <<",">> \o str(e[3])

RECURSIVE combination_json_str(_)
\* EventCombination.json_str: "+".join(event.json_str() for event in self)
combination_json_str(c) ==
    IF Len(c) = 0 THEN <<>>
    ELSE IF Len(c) = 1 THEN json_str(c[1])
    ELSE json_str(c[1]) \o <<"+">> \o combination_json_str(Tail(c))

RECURSIVE SplitAcc(_, _, _)
SplitAcc(s, sep, cur) ==
    IF Len(s) = 0 THEN <<cur>>
    ELSE IF Head(s) = sep THEN <<cur>> \o SplitAcc(Tail(s), sep, <<>>)
    ELSE SplitAcc(Tail(s), sep, Append(cur, Head(s)))

\* str.split(sep)
Split(s, sep) == SplitAcc(s, sep, <<>>)

\* the character is a digit
IsDigit(ch) == \E n \in Numbers : ToString(n) = ch

\* whether int(x) reads the field: digits, and at least one
IsInt(field) == Len(field) >= 1 /\ \A i \in 1..Len(field) : IsDigit(field[i])

RECURSIVE ParseInt(_)
\* int(x) of a field of digits
ParseInt(field) ==
    LET digit == CHOOSE n \in Numbers : ToString(n) = field[Len(field)]
    IN  IF Len(field) = 1 THEN digit
        ELSE 10 * ParseInt(SubSeq(field, 1, Len(field) - 1)) + digit

\* what a constructor gives in place of an event or a combination when it
\* raises InputEventCreationError
NoEvent == <<>>

\* InputEvent.from_string: t, c, v = string.split(","), then int() of each
from_string(string) ==
    LET parts == Split(string, ",")
    IN  IF Len(parts) # 3 THEN NoEvent
        ELSE IF \E i \in 1..3 : ~ IsInt(parts[i]) THEN NoEvent
        ELSE <<ParseInt(parts[1]), ParseInt(parts[2]), ParseInt(parts[3])>>

\* EventCombination from its string: the events of the "+"-separated parts,
\* NoEvent when one of them cannot be created or an event comes twice
combination_from_string(string) ==
    LET parts == Split(string, "+")
        events == [i \in 1..Len(parts) |-> from_string(parts[i])]
    IN  IF \E i \in 1..Len(parts) : events[i] = NoEvent THEN NoEvent
        ELSE IF ~ IsCombination(events) THEN NoEvent
        ELSE events

-----------------------------------------------------------------------------
(* dictionaries                                                            *)

EmptyDict == [key \in {} |-> key]

Keys(d) == DOMAIN d

Get(d, key) == d[key]

\* d[key] = value
Put(d, key, value) ==
    [x \in DOMAIN d \cup {key} |-> IF x = key THEN value ELSE d[x]]

\* d without key
Without(d, key) == [x \in DOMAIN d \ {key} |-> d[x]]

\* the combinations, in the order in which a dictionary is walked
ComboOrder == CHOOSE s \in [1..Cardinality(Combos) -> Combos] : Range(s) = Combos

\* d.values(), as a list
Values(d) ==
    LET keys == SelectSeq(ComboOrder, LAMBDA c : c \in DOMAIN d)
    IN  [i \in 1..Len(keys) |-> d[keys[i]]]

-----------------------------------------------------------------------------
VARIABLES
    mappings,   \* Preset._mappings: EventCombination -> Mapping
    saved,      \* Preset._saved_mappings: EventCombination -> Mapping copy
    path,       \* Preset._path
    file,       \* the file at PresetPath
    last,       \* the call that was made last, and how it ended
    handler,    \* a MappingHandler: mapping, input_events, _sub_handler
    hlast,      \* the call that was made last on the handler
    injector,   \* handle_keycode: its mappings, the uinput, the macro runs
    made,       \* InputEvent: a source and what the constructors make of it
    chord,      \* a CombinationHandler
    hierarchy,  \* a HierarchyHandler
    folder,     \* the preset files of the groups, and the last call on them
    heap        \* the Mapping objects of a preset, its index and snapshot of them

vars == <<mappings, saved, path, file, last, handler, hlast,
          injector, made, chord, hierarchy, folder, heap>>

\* the value of what a specification does not use
Unused == "unused"

\* no MappingHandler
NoHandlers == handler = Unused /\ hlast = Unused

\* no handle_keycode
NoInjector == injector = Unused

\* no InputEvent is made
NoEvents == made = Unused

\* no CombinationHandler and no HierarchyHandler
NoPipeline == chord = Unused /\ hierarchy = Unused

\* no preset files
NoFolder == folder = Unused

\* no Mapping objects
NoHeap == heap = Unused

\* a call of the preset leaves everything else
PresetOnly ==
    UNCHANGED <<handler, hlast, injector, made, chord, hierarchy, folder, heap>>

\* a Mapping as a value: __eq__ compares the fields, not the callback
Fields(m) == [comb |-> m.comb, out |-> m.out]

\* Mapping.is_valid: a mapping with no output is not valid
is_valid(m) == m.out # None

\* op: the method; raised: it ended in an exception; wrote: it wrote the file
Call(op, raised, wrote) == [op |-> op, raised |-> raised, wrote |-> wrote]

\* contents a preset file can have
FileKinds == {"absent", "empty", "corrupt", "binary", "nonobject", "object"}

NoFile(kind) == [kind |-> kind, entries |-> <<>>]

\* a comparison of the keys alone
has_unsaved_changes_keys(ms, sv) == Keys(ms) # Keys(sv)

\* Preset.has_unsaved_changes: self._mappings != self._saved_mappings
has_unsaved_changes(ms, sv) ==
    ~ (/\ Keys(ms) = Keys(sv)
       /\ \A key \in Keys(ms) : Fields(Get(ms, key)) = Fields(Get(sv, key)))

-----------------------------------------------------------------------------
(* Preset.add, Preset.remove, the rename callback, Preset.get_mapping      *)

\* a check of the combination as given, without its permutations
add_raises_exact(ms, comb) == comb \in Keys(ms)

\* Preset.add, the loop: some permutation of the combination is a key
add_raises(ms, comb) ==
    LET perms == get_permutations(comb)
    IN  \E i \in 1..Len(perms) : perms[i] \in Keys(ms)

\* Mapping.set_combination_changed_callback
set_combination_changed_callback(m) == [m EXCEPT !.cb = TRUE]

\* Mapping.remove_combination_changed_callback
remove_combination_changed_callback(m) == [m EXCEPT !.cb = FALSE]

\* Preset.add: the callback is set and the mapping stored under its
\* combination, unless the loop raised KeyError; m is the mapping afterwards
add(ms, m) ==
    IF add_raises(ms, m.comb)
    THEN [ms |-> ms, m |-> m, raised |-> TRUE]
    ELSE [ms |-> Put(ms, m.comb, set_combination_changed_callback(m)),
          m |-> set_combination_changed_callback(m),
          raised |-> FALSE]

\* the combination as given, without the loop
remove_key_exact(ms, comb) == comb

\* Preset.remove, the loop: the first permutation that is a key replaces the
\* combination
remove_key(ms, comb) ==
    LET perms == get_permutations(comb)
        hits == {i \in 1..Len(perms) : perms[i] \in Keys(ms)}
    IN  IF hits = {} THEN comb
        ELSE perms[CHOOSE i \in hits : \A j \in hits : i <= j]

\* Preset.remove: pop and detach the callback; a KeyError is logged.
\* popped holds the mapping that was taken out, as it is left
remove(ms, comb) ==
    LET key == remove_key(ms, comb)
    IN  IF key \in Keys(ms)
        THEN [ms |-> Without(ms, key),
              popped |-> {remove_combination_changed_callback(Get(ms, key))}]
        ELSE [ms |-> ms, popped |-> {}]

\* a check of new as given, without its permutations
callback_collides_exact(ms, new, old) == new \in Keys(ms) /\ new # old

\* Preset._combination_changed_callback, the loop: a permutation of new is a
\* key and is not old
callback_collides(ms, new, old) ==
    LET perms == get_permutations(new)
    IN  \E i \in 1..Len(perms) : perms[i] \in Keys(ms) /\ perms[i] # old

\* the KeyError of pop(old) alone, without the loop
callback_raises_pop(ms, new, old) == old \notin Keys(ms)

\* Preset._combination_changed_callback raises KeyError: from the loop, or
\* from pop(old) when old is no key
callback_raises(ms, new, old) ==
    callback_collides(ms, new, old) \/ old \notin Keys(ms)

\* an assignment that leaves old in the index
callback_rekey_keep(ms, new, old) == Put(ms, new, Get(ms, old))

\* self._mappings[new] = self._mappings.pop(old)
callback_rekey(ms, new, old) == Put(Without(ms, old), new, Get(ms, old))

\* what get_mapping returns for None
NoMapping == [comb |-> NoEvent, out |-> None, cb |-> FALSE]

\* a lookup of the combination as given, without its permutations
get_mapping_exact(ms, comb) == IF comb \in Keys(ms) THEN Get(ms, comb) ELSE NoMapping

\* Preset.get_mapping: the first permutation that is a key gives the mapping;
\* None for an empty combination and when no permutation is a key
get_mapping(ms, comb) ==
    IF Len(comb) = 0 THEN NoMapping
    ELSE LET perms == get_permutations(comb)
             hits == {i \in 1..Len(perms) : perms[i] \in Keys(ms)}
         IN  IF hits = {} THEN NoMapping
             ELSE Get(ms, perms[CHOOSE i \in hits : \A j \in hits : i <= j])

\* Preset.empty: every stored mapping loses the callback, the index is empty;
\* detached holds the mappings that were stored, as they are left
empty(ms) ==
    [ms |-> EmptyDict,
     detached |-> {remove_combination_changed_callback(ms[key]) : key \in Keys(ms)}]

-----------------------------------------------------------------------------
(* the preset file                                                         *)

\* the mapping factory raises ValidationError: the key is no combination, or
\* the mapping has no output
factory_raises(entry) ==
    combination_from_string(entry.key) = NoEvent \/ entry.out = None

RECURSIVE read_entries(_)
\* Preset._get_mappings_from_disc, the loop over preset_dict.items(): the
\* mappings that are made, in the order of the file
read_entries(entries) ==
    IF Len(entries) = 0 THEN <<>>
    ELSE LET e == Head(entries)
             comb == combination_from_string(e.key)
         IN  IF factory_raises(e) THEN read_entries(Tail(entries))
             ELSE <<[comb |-> comb, out |-> e.out, cb |-> FALSE]>>
                      \o read_entries(Tail(entries))

RECURSIVE as_dict(_, _)
\* mappings[mapping.event_combination] = mapping, for each of the list
as_dict(list, acc) ==
    IF Len(list) = 0 THEN acc
    ELSE as_dict(Tail(list), Put(acc, Head(list).comb, Head(list)))

\* json.load raises JSONDecodeError, which is caught
json_decode_error(f) == f.kind \in {"empty", "corrupt"}

\* Preset._get_mappings_from_disc raises: open() finds no file, the bytes
\* are no text (UnicodeDecodeError), or the document is no object
disc_raises(p, f) == p # None /\ f.kind \in {"absent", "binary", "nonobject"}

\* Preset._get_mappings_from_disc, when it returns: the mappings, in the
\* order of the file
get_mappings_from_disc(p, f) ==
    IF p = None \/ json_decode_error(f) THEN <<>>
    ELSE read_entries(f.entries)

\* Mapping.copy
copy(m) == m

RECURSIVE load_adds(_, _)
\* Preset.load, the loop: self.add(mapping.copy()) for the values of the
\* snapshot, until one raises
load_adds(ms, values) ==
    IF Len(values) = 0 THEN [ms |-> ms, raised |-> FALSE]
    ELSE LET r == add(ms, copy(Head(values)))
         IN  IF r.raised THEN [ms |-> ms, raised |-> TRUE]
             ELSE load_adds(r.ms, Tail(values))

RECURSIVE common_data(_, _)
\* common_data: one member for every pair of equal members
common_data(list1, list2) ==
    IF Len(list1) = 0 THEN <<>>
    ELSE [i \in 1..Len(SelectSeq(list2, LAMBDA y : y = Head(list1))) |-> Head(list1)]
         \o common_data(Tail(list1), list2)

\* isinstance(mapping.event_combination, EventCombination)
is_event_combination(comb) == comb # NoEvent

\* a loop that skips on one match already
save_skips_any(ms, m) ==
    /\ ~ is_valid(m)
    /\ \/ ~ is_event_combination(m.comb)
       \/ LET combinations == [i \in 1..Len(Values(ms)) |-> Values(ms)[i].comb]
              common == common_data(get_permutations(m.comb), combinations)
          IN  Len(common) >= 1

\* Preset.save, the loop: the mapping is skipped
save_skips(ms, m) ==
    /\ ~ is_valid(m)
    /\ \/ ~ is_event_combination(m.comb)
       \/ LET combinations == [i \in 1..Len(Values(ms)) |-> Values(ms)[i].comb]
              common == common_data(get_permutations(m.comb), combinations)
          IN  Len(common) > 1

\* Preset.save: the mappings that are written, in the order of the index
save_written(ms) == SelectSeq(Values(ms), LAMBDA m : ~ save_skips(ms, m))

\* json_ready: one entry for a written mapping, its key the combination's
\* string, its output left out when it is the default
save_entries(written) ==
    [i \in 1..Len(written) |->
        [key |-> combination_json_str(written[i].comb), out |-> written[i].out]]

RECURSIVE save_snapshot(_, _)
\* saved_mappings: a copy without callback for a written mapping
save_snapshot(written, acc) ==
    IF Len(written) = 0 THEN acc
    ELSE save_snapshot(Tail(written),
             Put(acc, Head(written).comb,
                 remove_combination_changed_callback(copy(Head(written)))))

\* touch: the file is created when there is none
touch(f) == IF f.kind = "absent" THEN NoFile("empty") ELSE f

-----------------------------------------------------------------------------
(* the state after construction                                            *)

\* a key of a preset file that is no combination: an event of two fields
MalformedKey == <<"1", ",", "1">>

FileKeys == {combination_json_str(c) : c \in Combos} \cup {MalformedKey}

\* the entries of a preset file when the preset is constructed; the entry
\* under the malformed key has an output, it is its key that fails
FileEntries ==
    {e \in [key : FileKeys, out : Outputs] : e.key = MalformedKey => e.out # None}

\* the JSON objects a preset file can hold when the preset is constructed:
\* no key comes twice
InitObjects ==
    {es \in UNION {[1..n -> FileEntries] : n \in 0..MaxEntries} :
        \A i, j \in 1..Len(es) : i # j => es[i].key # es[j].key}

\* the JSON objects of one entry more, of which the factory takes some
\* entries and raises for others
MixedObjects ==
    {es \in [1..(MaxEntries + 1) -> FileEntries] :
        /\ \A i, j \in 1..Len(es) : i # j => es[i].key # es[j].key
        /\ \E i \in 1..Len(es) : factory_raises(es[i])
        /\ \E i \in 1..Len(es) : ~ factory_raises(es[i])}

InitFiles ==
    {NoFile(kind) : kind \in FileKinds \ {"object"}}
        \cup {[kind |-> "object", entries |-> es] : es \in InitObjects}

\* the Mappings a caller makes
NewMappings == [comb : Combos, out : Outputs, cb : {FALSE}]

\* Preset.__init__: no mappings, no snapshot, the path as given
Init ==
    /\ mappings = EmptyDict
    /\ saved = EmptyDict
    /\ path \in {None, PresetPath}
    /\ file \in InitFiles
    /\ last = Call("init", FALSE, FALSE)
    /\ NoHandlers /\ NoInjector /\ NoEvents /\ NoPipeline /\ NoFolder /\ NoHeap

-----------------------------------------------------------------------------
(* the calls                                                               *)

\* preset.add(mapping), of a mapping the caller made or of a stored one
Add(m) ==
    LET r == add(mappings, m)
    IN  /\ mappings' = r.ms
        /\ last' = Call("add", r.raised, FALSE)
        /\ UNCHANGED <<saved, path, file>>
        /\ PresetOnly

\* preset.remove(combination)
Remove(comb) ==
    LET r == remove(mappings, comb)
    IN  /\ mappings' = r.ms
        /\ last' = Call("remove", FALSE, FALSE)
        /\ UNCHANGED <<saved, path, file>>
        /\ PresetOnly

\* the key under which a stored mapping is stored
key_of(ms, m) == CHOOSE key \in Keys(ms) : ms[key] = m

\* m = preset.get_mapping(comb); m.event_combination = new.
\* Mapping.__setattr__ returns when the combination is the one it has, calls
\* the callback when it has one, and sets the field when that did not raise
Rename(comb, new) ==
    LET m == get_mapping(mappings, comb)
        old == m.comb
        called == m.cb /\ new # old
        raised == called /\ callback_raises(mappings, new, old)
        renamed == [m EXCEPT !.comb = new]
    IN  /\ m # NoMapping
        /\ mappings' =
              IF raised \/ new = old THEN mappings
              ELSE IF called THEN Put(callback_rekey(mappings, new, old), new, renamed)
              ELSE Put(mappings, key_of(mappings, m), renamed)
        /\ last' = Call("rename", raised, FALSE)
        /\ UNCHANGED <<saved, path, file>>
        /\ PresetOnly

\* m = preset.get_mapping(comb); m.output_symbol = out
Edit(comb, out) ==
    LET m == get_mapping(mappings, comb)
    IN  /\ m # NoMapping
        /\ mappings' = Put(mappings, key_of(mappings, m), [m EXCEPT !.out = out])
        /\ last' = Call("edit", FALSE, FALSE)
        /\ UNCHANGED <<saved, path, file>>
        /\ PresetOnly

\* preset.empty()
Empty ==
    LET r == empty(mappings)
    IN  /\ mappings' = r.ms
        /\ last' = Call("empty", FALSE, FALSE)
        /\ UNCHANGED <<saved, path, file>>
        /\ PresetOnly

\* Preset._update_saved_mappings, when it does not raise
update_saved_mappings(p, f, sv) ==
    IF p = None THEN sv
    ELSE IF f.kind = "absent" THEN EmptyDict
    ELSE as_dict(get_mappings_from_disc(p, f), EmptyDict)

\* preset.path = p: the setter does nothing for the path the preset has
SetPath(p) ==
    LET changed == p # path
        raised == changed /\ file.kind # "absent" /\ disc_raises(p, file)
    IN  /\ path' = p
        /\ saved' = IF changed /\ ~ raised
                    THEN update_saved_mappings(p, file, saved) ELSE saved
        /\ last' = Call("path", raised, FALSE)
        /\ UNCHANGED <<mappings, file>>
        /\ PresetOnly

\* preset.clear(): empty(), no snapshot, and the path set to None
Clear ==
    LET r == empty(mappings)
    IN  /\ mappings' = r.ms
        /\ saved' = EmptyDict
        /\ path' = None
        /\ last' = Call("clear", FALSE, FALSE)
        /\ UNCHANGED file
        /\ PresetOnly

\* preset.load(): FileNotFoundError without a path or a file; else the
\* snapshot is read, the index emptied, and a copy of each snapshot value added
Load ==
    LET not_found == path = None \/ file.kind = "absent"
        unread == not_found \/ disc_raises(path, file)
        read == get_mappings_from_disc(path, file)
        e == empty(mappings)
        r == load_adds(e.ms, read)
    IN  /\ saved' = IF unread THEN saved ELSE as_dict(read, EmptyDict)
        /\ mappings' = IF unread THEN mappings ELSE r.ms
        /\ last' = Call("load", unread \/ r.raised, FALSE)
        /\ UNCHANGED <<path, file>>
        /\ PresetOnly

\* preset.save(): nothing without a path; the file is touched; it is written,
\* and the snapshot replaced, when there are unsaved changes
Save ==
    LET writes == path # None /\ has_unsaved_changes(mappings, saved)
        written == save_written(mappings)
    IN  /\ file' = IF path = None THEN file
                   ELSE IF ~ writes THEN touch(file)
                   ELSE [kind |-> "object", entries |-> save_entries(written)]
        /\ saved' = IF writes THEN save_snapshot(written, EmptyDict) ELSE saved
        /\ last' = Call("save", FALSE, writes)
        /\ UNCHANGED <<mappings, path>>
        /\ PresetOnly

Next ==
    \/ \E m \in NewMappings \cup {mappings[key] : key \in Keys(mappings)} : Add(m)
    \/ \E comb \in Combos : Remove(comb)
    \/ \E comb \in Combos, new \in Combos : Rename(comb, new)
    \/ \E comb \in Combos, out \in Outputs : Edit(comb, out)
    \/ Empty
    \/ Clear
    \/ \E p \in {None, PresetPath} : SetPath(p)
    \/ Load
    \/ Save

Spec == Init /\ [][Next]_vars

\* a preset constructed over a file of passing and failing entries
InitMixed ==
    /\ mappings = EmptyDict
    /\ saved = EmptyDict
    /\ path \in {None, PresetPath}
    /\ file \in {[kind |-> "object", entries |-> es] : es \in MixedObjects}
    /\ last = Call("init", FALSE, FALSE)
    /\ NoHandlers /\ NoInjector /\ NoEvents /\ NoPipeline /\ NoFolder /\ NoHeap

SpecMixed == InitMixed /\ [][Next]_vars

-----------------------------------------------------------------------------
(* InputEvent, with its time and its action                                *)

\* evdev.ecodes.EV_KEY and evdev.ecodes.EV_ABS
EV_KEY == 1
EV_ABS == 3

\* EventActions
EventActions == {"as_key", "recenter", "none"}

\* the dataclass InputEvent(sec, usec, type, code, value, action)
InputEvent(sec, usec, type, code, value, action) ==
    [sec |-> sec, usec |-> usec, type |-> type, code |-> code,
     value |-> value, action |-> action]

\* InputEvent.event_tuple
event_tuple(e) == <<e.type, e.code, e.value>>

\* a comparison of every field, as a dataclass makes it
event_eq_all(e, other) == e = other

\* InputEvent.__eq__ for another InputEvent: the event tuples are equal
event_eq(e, other) == event_tuple(e) = <<other.type, other.code, other.value>>

\* InputEvent.is_key_event
is_key_event(e) == e.type = EV_KEY \/ e.action = "as_key"

\* an argument that is not given (None) is <<>>, one that is given is <<x>>
NotGiven == <<>>

Given(x) == <<x>>

\* the arguments of a modify() that gives none
NoArgs ==
    [sec |-> NotGiven, usec |-> NotGiven, type |-> NotGiven, code |-> NotGiven,
     value |-> NotGiven, action |-> "none"]

\* x if x is not None else y
OrElse(arg, default) == IF arg = NotGiven THEN default ELSE arg[1]

\* InputEvent.modify: a new event, with the fields that are given; an action
\* of EventActions.none is taken as not given
modify(e, args) ==
    InputEvent(OrElse(args.sec, e.sec),
               OrElse(args.usec, e.usec),
               OrElse(args.type, e.type),
               OrElse(args.code, e.code),
               OrElse(args.value, e.value),
               IF args.action # "none" THEN args.action ELSE e.action)

\* hash() of an int: -1 is no hash value, -2 stands for it
int_hash(n) == IF n = -1 THEN -2 ELSE n

\* InputEvent.__hash__: hash((type, code, value)), which is made of the
\* hashes of the three
event_hash(e) == <<int_hash(e.type), int_hash(e.code), int_hash(e.value)>>

-----------------------------------------------------------------------------
(* MappingHandler                                                          *)

\* events of a combination a handler is made for
MaxEvents == 2

\* the events combinations are made of: a key and an axis, moved or at
\* rest, as they come or marked for recentering
HandlerEvents ==
    {InputEvent(0, 0, t, 1, v, a) :
        t \in {EV_KEY, EV_ABS}, v \in {0, 1}, a \in {"none", "recenter"}}

\* the combinations of these events: no event twice
HandlerCombinations ==
    {c \in UNION {[1..n -> HandlerEvents] : n \in 1..MaxEvents} :
        \A i, j \in 1..Len(c) : i # j => ~ event_eq(c[i], c[j])}

\* the events of c at the indices S, in the order of c
Pick(c, S) ==
    LET idx == SelectSeq([i \in 1..Len(c) |-> i], LAMBDA i : i \in S)
    IN  [k \in 1..Len(idx) |-> c[idx[k]]]

\* the combinations wrap_with() gives for a mapping: events of the mapping's
\* combination
wrap_with(mapping) ==
    {Pick(mapping, S) : S \in (SUBSET (1..Len(mapping))) \ {{}}}

\* the handler before it is made
NoHandler ==
    [built |-> FALSE, mapping |-> <<>>, input_events |-> <<>>, sub_handler |-> None]

\* op: the method; error: the exception it ended in, or "none"
HCall(op, error) == [op |-> op, error |-> error]

\* a loop that gives every event the action as_key
new_combination_all(combination) ==
    [i \in 1..Len(combination) |->
        modify(combination[i], [NoArgs EXCEPT !.action = "as_key"])]

RECURSIVE new_combination(_)
\* MappingHandler.__init__, the loop: an event with a value gets the action
\* as_key
new_combination(combination) ==
    IF Len(combination) = 0 THEN <<>>
    ELSE LET event == Head(combination)
         IN  <<IF event.value # 0
               THEN modify(event, [NoArgs EXCEPT !.action = "as_key"])
               ELSE event>> \o new_combination(Tail(combination))

\* MappingHandler.__init__
MappingHandler(combination, mapping) ==
    [built |-> TRUE,
     mapping |-> mapping,
     input_events |-> new_combination(combination),
     sub_handler |-> None]

\* the indices of the members of a list that are equal to the event
indices_of(list, event) == {i \in 1..Len(list) : event_eq(list[i], event)}

\* list.remove(event): without the first member that is equal to the event
list_remove(list, event) ==
    RemoveAt(list, CHOOSE i \in indices_of(list, event) :
                       \A j \in indices_of(list, event) : i <= j)

\* MappingHandler.occlude_input_event: the exception it ends in
occlude_error(input_events, event) ==
    IF Len(input_events) = 0 THEN "MappingParsingError"
    ELSE IF indices_of(input_events, event) = {} THEN "ValueError"
    ELSE "none"

\* an occlusion that takes in the event it does not find
occlude_input_event_or_add(input_events, event) ==
    IF occlude_error(input_events, event) # "none" THEN Append(input_events, event)
    ELSE RemoveAt(input_events, CHOOSE i \in indices_of(input_events, event) : TRUE)

\* MappingHandler.occlude_input_event: self.input_events afterwards
occlude_input_event(input_events, event) ==
    IF occlude_error(input_events, event) # "none" THEN input_events
    ELSE list_remove(input_events, event)

\* a call of the handler leaves the preset
HandlerOnly ==
    UNCHANGED <<mappings, saved, path, file, last, injector, made, chord,
                hierarchy, folder, heap>>

\* handler = MappingHandler(combination, mapping)
Construct(combination, mapping) ==
    /\ ~ handler.built
    /\ handler' = MappingHandler(combination, mapping)
    /\ hlast' = HCall("init", "none")
    /\ HandlerOnly

\* handler.occlude_input_event(event)
Occlude(event) ==
    /\ handler.built
    /\ handler' = [handler EXCEPT
                      !.input_events = occlude_input_event(handler.input_events, event)]
    /\ hlast' = HCall("occlude", occlude_error(handler.input_events, event))
    /\ HandlerOnly

\* handler.set_sub_handler(sub)
SetSubHandler(sub) ==
    /\ handler.built
    /\ handler' = [handler EXCEPT !.sub_handler = sub]
    /\ hlast' = HCall("set_sub_handler", "none")
    /\ HandlerOnly

\* no preset
NoPreset ==
    /\ mappings = Unused /\ saved = Unused /\ path = Unused
    /\ file = Unused /\ last = Unused

InitHandler ==
    /\ handler = NoHandler
    /\ hlast = HCall("new", "none")
    /\ NoPreset /\ NoInjector /\ NoEvents /\ NoPipeline /\ NoFolder /\ NoHeap

NextHandler ==
    \/ \E mapping \in HandlerCombinations :
          \E combination \in wrap_with(mapping) : Construct(combination, mapping)
    \/ \E event \in HandlerEvents : Occlude(event)
    \/ SetSubHandler("sub")

SpecHandler == InitHandler /\ [][NextHandler]_vars

-----------------------------------------------------------------------------
(* handle_keycode (keymapper/dev/keycode_mapper.py)                        *)

\* events that arrive at the injector
MaxArrivals == 2

\* suspension points of a macro run
MacroSteps == 2

\* the evdev events that arrive: a mapped code, a code of a macro, and one
\* that can be neither; released, pressed and held
ArrivingEvents == [type : {EV_KEY, EV_ABS}, code : {1, 2, 3}, value : {0, 1, 2}]

\* code_code_mapping: code 1 is mapped, and code 3 can be
CodeMappings == {(1 :> 4), (1 :> 4) @@ (3 :> 5)}

\* macros, by the codes that are their keys
MacroCodes == SUBSET {2, 3}

\* uinput.write(type, code, value) and uinput.syn()
Write(type, code, value) == <<"write", type, code, value>>

Syn == <<"syn">>

\* handle_keycode: asyncio.ensure_future(macro.run()) is reached
handle_keycode_starts(macros, event) ==
    event.value # 2 /\ event.code \in macros /\ event.value = 1

\* a mapped code that is written with the type of the event
handle_keycode_writes_own_type(code_code_mapping, macros, event) ==
    IF event.value = 2 THEN <<>>
    ELSE IF event.code \in macros THEN <<>>
    ELSE IF event.code \in DOMAIN code_code_mapping
    THEN <<Write(event.type, code_code_mapping[event.code], event.value), Syn>>
    ELSE <<Write(event.type, event.code, event.value), Syn>>

\* handle_keycode: what is written to the uinput
handle_keycode_writes(code_code_mapping, macros, event) ==
    IF event.value = 2 THEN <<>>
    ELSE IF event.code \in macros THEN <<>>
    ELSE IF event.code \in DOMAIN code_code_mapping
    THEN <<Write(EV_KEY, code_code_mapping[event.code], event.value), Syn>>
    ELSE <<Write(event.type, event.code, event.value), Syn>>

\* a run of the macro of a code, with its suspension points ahead
MacroRun(code) == [macro |-> code, left |-> MacroSteps]

\* a step of the injector leaves everything else
InjectorOnly ==
    UNCHANGED <<mappings, saved, path, file, last, handler, hlast,
                made, chord, hierarchy, folder, heap>>

\* handle_keycode(code_code_mapping, macros, event, uinput)
HandleKeycode(event) ==
    /\ injector.arrivals < MaxArrivals
    /\ injector' =
          [injector EXCEPT
              !.arrivals = @ + 1,
              !.uinput = @ \o handle_keycode_writes(injector.code_code_mapping,
                                                    injector.macros, event),
              !.tasks = IF handle_keycode_starts(injector.macros, event)
                        THEN Append(@, MacroRun(event.code)) ELSE @]
    /\ InjectorOnly

\* the event loop resumes a macro run up to its next suspension point, or to
\* its end
MacroStep(i) ==
    /\ i \in 1..Len(injector.tasks)
    /\ injector' =
          [injector EXCEPT
              !.tasks = IF @[i].left > 1
                        THEN [@ EXCEPT ![i].left = @ - 1]
                        ELSE RemoveAt(@, i)]
    /\ InjectorOnly

InitInjector ==
    /\ injector \in [code_code_mapping : CodeMappings, macros : MacroCodes,
                     uinput : {<<>>}, tasks : {<<>>}, arrivals : {0}]
    /\ NoPreset /\ NoHandlers /\ NoEvents /\ NoPipeline /\ NoFolder /\ NoHeap

NextInjector ==
    \/ \E event \in ArrivingEvents : HandleKeycode(event)
    \/ \E i \in 1..MaxArrivals : MacroStep(i)

SpecInjector == InitInjector /\ [][NextInjector]_vars

-----------------------------------------------------------------------------
(* the constructors of InputEvent                                          *)

\* characters of a string that is given to a constructor
MaxChars == 5

\* members of a tuple that is given to a constructor
MaxItems == 4

\* the exception of this module
InputEventCreationError == "InputEventCreationError"

\* what a call gives: the event it returns, or the exception it raises
NoInputEvent == InputEvent(0, 0, 0, 0, 0, "none")

Made(e) == [error |-> "none", event |-> e]

Raised(error) == [error |-> error, event |-> NoInputEvent]

\* the members a tuple can have: a number, a string, None
IntItem(n) == [int |-> n]

StrItem(chars) == [chars |-> chars]

NoneItem == [none |-> TRUE]

\* the events that are compared, copied and given to validate()
SomeEvents ==
    {InputEvent(sec, 0, type, 1, value, action) :
        sec \in {0, 1}, type \in {EV_KEY, EV_ABS},
        value \in {-2, -1, 0, 1}, action \in {"none", "as_key"}}

\* the attributes an evdev.InputEvent has
EventAttributes == {"sec", "usec", "type", "code", "value"}

\* the arguments of the constructors: an InputEvent, an object with
\* attributes (an evdev.InputEvent has all five, and numbers in them), a
\* string, a tuple
Sources ==
    {[kind |-> "InputEvent", event |-> e] : e \in SomeEvents}
    \cup {[kind |-> "object",
           attrs |-> [name \in D |-> IF name = "type" THEN type ELSE IntItem(1)]] :
             D \in {EventAttributes, EventAttributes \ {"value"}, {}},
             type \in {IntItem(1), StrItem(<<"x">>), NoneItem}}
    \cup {[kind |-> "str", chars |-> cs] :
             cs \in UNION {[1..n -> {"1", "2", ",", "x"}] : n \in 0..MaxChars}}
    \cup {[kind |-> "tuple", items |-> is] :
             is \in UNION {[1..n -> {IntItem(1), StrItem(<<"2">>), StrItem(<<"x">>), NoneItem}] :
                              n \in 0..MaxItems}}

\* except (those caught): raise InputEventCreationError
Except(error, caught) ==
    IF error \in caught THEN InputEventCreationError ELSE error

\* the value an attribute holds: the number, or whatever else it is
held(item) == IF "int" \in DOMAIN item THEN item.int ELSE item

\* InputEvent.from_event: cls(event.sec, event.usec, event.type, event.code,
\* event.value), the attributes as they are; AttributeError is caught
from_event(src) ==
    IF src.kind = "InputEvent"
    THEN Made(InputEvent(src.event.sec, src.event.usec, src.event.type,
                         src.event.code, src.event.value, "none"))
    ELSE IF src.kind = "object" /\ EventAttributes \subseteq DOMAIN src.attrs
    THEN Made(InputEvent(held(src.attrs.sec), held(src.attrs.usec), held(src.attrs.type),
                         held(src.attrs.code), held(src.attrs.value), "none"))
    ELSE Raised(Except("AttributeError", {"AttributeError"}))

\* InputEvent.from_string of an argument: what is no str has no split()
\* (AttributeError), a str that does not split in three or has a part that is
\* no int gives ValueError; both are caught
from_string_arg(src) ==
    IF src.kind # "str" THEN Raised(Except("AttributeError", {"ValueError", "AttributeError"}))
    ELSE IF from_string(src.chars) = NoEvent
    THEN Raised(Except("ValueError", {"ValueError", "AttributeError"}))
    ELSE LET t == from_string(src.chars)
         IN  Made(InputEvent(0, 0, t[1], t[2], t[3], "none"))

\* the members of a tuple, the characters of a str
items_of(src) ==
    IF src.kind = "tuple" THEN src.items
    ELSE [i \in 1..Len(src.chars) |-> StrItem(<<src.chars[i]>>)]

\* int(x): the exception it raises, or "none"
int_error(item) ==
    IF "none" \in DOMAIN item THEN "TypeError"
    ELSE IF "chars" \in DOMAIN item /\ ~ IsInt(item.chars) THEN "ValueError"
    ELSE "none"

\* int(x) where it raises nothing
int_of(item) == IF "int" \in DOMAIN item THEN item.int ELSE ParseInt(item.chars)

\* InputEvent.from_tuple, the try block: the exception that is raised in it
from_tuple_error(src) ==
    IF src.kind \notin {"tuple", "str"} THEN "TypeError"
    ELSE LET items == items_of(src)
             bad == {i \in 1..Len(items) : int_error(items[i]) # "none"}
         IN  IF Len(items) # 3 THEN InputEventCreationError
             ELSE IF bad = {} THEN "none"
             ELSE int_error(items[CHOOSE i \in bad : \A j \in bad : i <= j])

\* InputEvent.from_tuple: ValueError and TypeError are caught
from_tuple(src) ==
    IF from_tuple_error(src) # "none"
    THEN Raised(Except(from_tuple_error(src), {"ValueError", "TypeError"}))
    ELSE LET items == items_of(src)
         IN  Made(InputEvent(0, 0, int_of(items[1]), int_of(items[2]),
                             int_of(items[3]), "none"))

RECURSIVE first_made(_)
\* InputEvent.validate, the loop: the first validator that does not raise
\* InputEventCreationError; ValueError when there is none
first_made(outcomes) ==
    IF Len(outcomes) = 0 THEN Raised("ValueError")
    ELSE IF Head(outcomes).error = InputEventCreationError THEN first_made(Tail(outcomes))
    ELSE Head(outcomes)

\* InputEvent.validate
validate(src) ==
    IF src.kind = "InputEvent" THEN Made(src.event)
    ELSE first_made(<<from_event(src), from_string_arg(src), from_tuple(src)>>)

\* a call: its arguments and what it gave; "new" before the call is made
MadeBy(op, a, b, source, out) ==
    [op |-> op, a |-> a, b |-> b, source |-> source, out |-> out]

NoSource == [kind |-> "none"]

\* a call of a constructor leaves everything else
EventsOnly ==
    UNCHANGED <<mappings, saved, path, file, last, handler, hlast,
                injector, chord, hierarchy, folder, heap>>

\* two events, to be compared
Pair(e1, e2) ==
    /\ made.op = "new"
    /\ made' = MadeBy("pair", e1, e2, NoSource, Made(e2))
    /\ EventsOnly

\* e.modify(...)
Modify(e, args) ==
    /\ made.op = "new"
    /\ made' = MadeBy("modify", e, modify(e, args), NoSource, Made(modify(e, args)))
    /\ EventsOnly

\* InputEvent.from_event(src)
FromEvent(src) ==
    /\ made.op = "new"
    /\ made' = MadeBy("from_event", NoInputEvent, NoInputEvent, src, from_event(src))
    /\ EventsOnly

\* InputEvent.from_string(src)
FromString(src) ==
    /\ made.op = "new"
    /\ made' = MadeBy("from_string", NoInputEvent, NoInputEvent, src, from_string_arg(src))
    /\ EventsOnly

\* InputEvent.from_tuple(src)
FromTuple(src) ==
    /\ made.op = "new"
    /\ made' = MadeBy("from_tuple", NoInputEvent, NoInputEvent, src, from_tuple(src))
    /\ EventsOnly

\* InputEvent.validate(src)
Validate(src) ==
    /\ made.op = "new"
    /\ made' = MadeBy("validate", NoInputEvent, NoInputEvent, src, validate(src))
    /\ EventsOnly

\* the arguments modify() is given
ModifyArgs ==
    [sec : {NotGiven, Given(1)}, usec : {NotGiven, Given(1)},
     type : {NotGiven, Given(EV_ABS)}, code : {NotGiven},
     value : {NotGiven, Given(0)}, action : EventActions]

InitEvents ==
    /\ made = MadeBy("new", NoInputEvent, NoInputEvent, NoSource, Made(NoInputEvent))
    /\ NoPreset /\ NoHandlers /\ NoInjector /\ NoPipeline /\ NoFolder /\ NoHeap

NextEvents ==
    \/ \E e1 \in SomeEvents, e2 \in SomeEvents : Pair(e1, e2)
    \/ \E e \in SomeEvents, args \in ModifyArgs : Modify(e, args)
    \/ \E src \in Sources : FromEvent(src)
    \/ \E src \in Sources : FromString(src)
    \/ \E src \in Sources : FromTuple(src)
    \/ \E src \in Sources : Validate(src)

SpecEvents == InitEvents /\ [][NextEvents]_vars

-----------------------------------------------------------------------------
(* CombinationHandler: the chord detection state machine. The class is not *)
(* among the sources; it is written from its description, behind the       *)
(* InputEventHandler protocol of mapping_handler.py.                       *)

\* the number of notify() and reset() calls that are followed
MaxFed == 5

\* the keys of the configured chord, and a key that is not in it
ChordKeys == {"KEY_A", "KEY_B"}

OtherKeys == {"KEY_C"}

\* the events the handler is notified of: value 1 is down, 0 is up, 2 is
\* still held
FedEvents ==
    [code : ChordKeys, value : {0, 1, 2}] \cup [code : OtherKeys, value : {1}]

\* a handler for the chord: the required events that are active, whether it
\* is triggered, what it forwarded to its sub-handler, what it was fed, and
\* what its last notify() returned
CombinationHandler(active, triggered, forwarded, fed, handled) ==
    [active |-> active, triggered |-> triggered, forwarded |-> forwarded,
     fed |-> fed, handled |-> handled]

\* the active set after the event: value 1 activates, value 0 deactivates
chord_active(h, event) ==
    IF event.value = 1 THEN h.active \cup {event.code}
    ELSE h.active \ {event.code}

\* the handler forwards on every release of a required event
chord_forwards_each_release(h, event) ==
    IF event.value = 1 /\ chord_active(h, event) = ChordKeys /\ ~ h.triggered
    THEN <<1>>
    ELSE IF event.value = 0
    THEN <<0>>
    ELSE <<>>

\* what the handler forwards for the event: a key-down when the active set
\* becomes the full required set, a key-up when a required event deactivates
\* after it was triggered
chord_forwards(h, event) ==
    IF event.value = 1 /\ chord_active(h, event) = ChordKeys /\ ~ h.triggered
    THEN <<1>>
    ELSE IF event.value = 0 /\ h.triggered
    THEN <<0>>
    ELSE <<>>

\* notify(event): an event of another key is not consumed, a repeat is
\* swallowed, the others update the active set
chord_notify(h, event) ==
    IF event.code \notin ChordKeys
    THEN CombinationHandler(h.active, h.triggered, h.forwarded,
                            Append(h.fed, event), FALSE)
    ELSE IF event.value = 2
    THEN CombinationHandler(h.active, h.triggered, h.forwarded,
                            Append(h.fed, event), TRUE)
    ELSE CombinationHandler(
             chord_active(h, event),
             IF chord_forwards(h, event) = <<1>> THEN TRUE
             ELSE IF chord_forwards(h, event) = <<0>> THEN FALSE
             ELSE h.triggered,
             h.forwarded \o chord_forwards(h, event),
             Append(h.fed, event),
             TRUE)

\* what reset() is recorded as in the history
ResetCall == [code |-> "reset", value |-> 0]

\* reset(): a release is emitted if the handler is triggered, and the active
\* set is cleared
chord_reset(h) ==
    CombinationHandler({}, FALSE,
                       h.forwarded \o (IF h.triggered THEN <<0>> ELSE <<>>),
                       Append(h.fed, ResetCall), h.handled)

ChordOnly ==
    UNCHANGED <<mappings, saved, path, file, last, handler, hlast,
                injector, made, hierarchy, folder, heap>>

\* handler.notify(event, source, forward)
ChordNotify(event) ==
    /\ Len(chord.fed) < MaxFed
    /\ chord' = chord_notify(chord, event)
    /\ ChordOnly

\* handler.reset()
ChordReset ==
    /\ Len(chord.fed) < MaxFed
    /\ chord' = chord_reset(chord)
    /\ ChordOnly

InitChord ==
    /\ chord = CombinationHandler({}, FALSE, <<>>, <<>>, FALSE)
    /\ hierarchy = Unused
    /\ NoPreset /\ NoHandlers /\ NoInjector /\ NoEvents /\ NoFolder /\ NoHeap

NextChord ==
    \/ \E event \in FedEvents : ChordNotify(event)
    \/ ChordReset

SpecChord == InitChord /\ [][NextChord]_vars

-----------------------------------------------------------------------------
(* HierarchyHandler: the overlap resolution. The class is not among the    *)
(* sources; it is written from its description. Its candidates follow the  *)
(* InputEventHandler protocol of mapping_handler.py: notify() returns      *)
(* whether the event was consumed.                                         *)

\* the number of candidate handlers, the length of their combinations, the
\* number of events that are followed
MaxCandidates == 3

MaxLength == 3

MaxNotified == 2

\* the candidates as they are registered: the length of the combination of
\* each
Registrations ==
    UNION {[1..n -> 1..MaxLength] : n \in 1..MaxCandidates}

\* the candidates in the order they were registered
sort_by_registration(lengths, rest) ==
    [i \in 1..Cardinality(rest) |->
        CHOOSE id \in rest : Cardinality({other \in rest : other < id}) = i - 1]

RECURSIVE sort_by_length(_, _)
\* the candidates by the length of their combination, longest first, those
\* of one length as they were registered
sort_by_length(lengths, rest) ==
    IF rest = {} THEN <<>>
    ELSE LET first == CHOOSE id \in rest :
                          \A other \in rest :
                              \/ lengths[id] > lengths[other]
                              \/ lengths[id] = lengths[other] /\ id <= other
         IN  <<first>> \o sort_by_length(lengths, rest \ {first})

\* a handler with its candidates, and of its last notify(): the candidates it
\* notified, in this order, what each candidate answers, what it returned,
\* and the candidates it reset
HierarchyHandler(lengths, handlers, notified, answers, handled, resets, count) ==
    [lengths |-> lengths, handlers |-> handlers, notified |-> notified,
     answers |-> answers, handled |-> handled, resets |-> resets,
     count |-> count]

\* the places of the candidates that consume the event
consumers(handlers, answers) ==
    {i \in 1..Len(handlers) : answers[handlers[i]]}

\* the number of candidates the event is fed to: all up to the first that
\* consumes it
fed_to(handlers, answers) ==
    IF consumers(handlers, answers) = {} THEN Len(handlers)
    ELSE CHOOSE i \in consumers(handlers, answers) :
             \A j \in consumers(handlers, answers) : i <= j

\* notify(event): the event is fed to the candidates in order until one
\* consumes it; the candidates that were not selected are reset
hierarchy_notify(h, answers) ==
    HierarchyHandler(
        h.lengths, h.handlers,
        SubSeq(h.handlers, 1, fed_to(h.handlers, answers)),
        answers,
        consumers(h.handlers, answers) # {},
        {h.handlers[i] : i \in fed_to(h.handlers, answers) + 1 .. Len(h.handlers)},
        h.count + 1)

\* what the candidates answered before any event
NoAnswers(lengths) == [id \in DOMAIN lengths |-> FALSE]

HierarchyOnly ==
    UNCHANGED <<mappings, saved, path, file, last, handler, hlast,
                injector, made, chord, folder, heap>>

\* handler.notify(event, source, forward), the candidates answering as they
\* will
HierarchyNotify(answers) ==
    /\ hierarchy.count < MaxNotified
    /\ hierarchy' = hierarchy_notify(hierarchy, answers)
    /\ HierarchyOnly

InitHierarchy ==
    /\ \E lengths \in Registrations :
          hierarchy = HierarchyHandler(lengths,
                                       sort_by_length(lengths, DOMAIN lengths),
                                       <<>>, NoAnswers(lengths), FALSE, {}, 0)
    /\ chord = Unused
    /\ NoPreset /\ NoHandlers /\ NoInjector /\ NoEvents /\ NoFolder /\ NoHeap

NextHierarchy ==
    \E answers \in [DOMAIN hierarchy.lengths -> BOOLEAN] : HierarchyNotify(answers)

SpecHierarchy == InitHierarchy /\ [][NextHierarchy]_vars

-----------------------------------------------------------------------------
(* get_available_preset_name and rename_preset (configs/preset.py). Names  *)
(* are sequences of characters; a preset file is its group and its name.   *)

\* the number of preset files
MaxFiles == 3

\* the groups that have presets
Groups == {"gamepad", "keyboard"}

\* the names that are asked for
RequestedNames ==
    {<<"a">>, <<" ", "a", " ">>,
     <<"a", " ", "2">>, <<"a", " ", "0", "9">>,
     <<"a", " ", "c", "o", "p", "y">>,
     <<"a", " ", "c", "o", "p", "y", " ", "2">>}

\* the preset files there can be
FileNames ==
    {<<"a">>, <<"a", " ", "2">>, <<"a", " ", "3">>, <<"a", " ", "0", "9">>,
     <<"a", " ", "1", "0">>,
     <<"a", " ", "c", "o", "p", "y">>,
     <<"a", " ", "c", "o", "p", "y", " ", "2">>,
     <<"a", " ", "c", "o", "p", "y", " ", "3">>}

RECURSIVE strip(_)
\* str.strip(): the whitespace at both ends is taken away
strip(name) ==
    IF name = <<>> THEN name
    ELSE IF Head(name) = " " THEN strip(Tail(name))
    ELSE IF name[Len(name)] = " " THEN strip(SubSeq(name, 1, Len(name) - 1))
    ELSE name

\* re.match(r"^(.+) (\d+)$", name): the place of the space between the two
\* groups, 0 when the name does not match
trailing_number(name) ==
    LET spaces == {i \in 1..Len(name) : name[i] = " "}
        at == CHOOSE i \in spaces : \A j \in spaces : j <= i
    IN  IF spaces = {} THEN 0
        ELSE IF at >= 2 /\ IsInt(SubSeq(name, at + 1, Len(name))) THEN at
        ELSE 0

\* the name ends in whitespace and "copy", with something before them
ends_in_copy(name) ==
    /\ Len(name) >= 6
    /\ SubSeq(name, Len(name) - 4, Len(name)) = <<" ", "c", "o", "p", "y">>

\* re.match(r"^.+\scopy( \d+)?$", name)
matches_copy(name) ==
    \/ ends_in_copy(name)
    \/ /\ trailing_number(name) # 0
       /\ ends_in_copy(SubSeq(name, 1, trailing_number(name) - 1))

\* get_preset_path(group_name, preset)
get_preset_path(group_name, preset) == <<group_name, preset>>

\* f"{preset} {i}"
numbered(preset, i) == preset \o <<" ">> \o str(i)

\* what a function gives: the name it returns, or the exception it raises
Named(name) == [error |-> "none", name |-> name]

NotNamed(error) == [error |-> error, name |-> <<>>]

\* a loop that gives the first number whether it is taken or not
first_free_unchecked(files, group_name, preset, i) == i

\* the while loop: the first number from i on for which no file exists
first_free(files, group_name, preset, i) ==
    CHOOSE n \in i..(i + Cardinality(files)) :
        /\ get_preset_path(group_name, numbered(preset, n)) \notin files
        /\ \A k \in i..(n - 1) : get_preset_path(group_name, numbered(preset, k)) \in files

\* get_available_preset_name(group_name, preset, as_copy)
get_available_preset_name(files, group_name, preset, as_copy) ==
    IF group_name = None THEN NotNamed("ValueError")
    ELSE LET stripped == strip(preset)
             name == IF as_copy /\ ~ matches_copy(stripped)
                     THEN stripped \o <<" ", "c", "o", "p", "y">>
                     ELSE stripped
             at == trailing_number(name)
             base == IF at # 0 THEN SubSeq(name, 1, at - 1) ELSE name
             i == IF at # 0 THEN ParseInt(SubSeq(name, at + 1, Len(name))) + 1 ELSE 2
         IN  IF get_preset_path(group_name, name) \in files
             THEN Named(numbered(base, first_free(files, group_name, base, i)))
             ELSE Named(name)

\* os.rename(src, dst): the file is at dst afterwards, in place of what was
\* there
os_rename(files, src, dst) == (files \ {src}) \cup {dst}

\* rename_preset(group_name, old_preset_name, new_preset_name): the files
\* afterwards and what is returned or raised
rename_preset(files, group_name, old_preset_name, new_preset_name) ==
    IF new_preset_name = old_preset_name
    THEN [files |-> files, out |-> Named(old_preset_name)]
    ELSE LET new == get_available_preset_name(files, group_name, new_preset_name, FALSE)
         IN  IF new.error # "none" THEN [files |-> files, out |-> new]
             ELSE IF get_preset_path(group_name, old_preset_name) \notin files
             THEN [files |-> files, out |-> NotNamed("FileNotFoundError")]
             ELSE [files |-> os_rename(files,
                                       get_preset_path(group_name, old_preset_name),
                                       get_preset_path(group_name, new.name)),
                   out |-> new]

\* a call on the preset files: its arguments, the files before it and what
\* it gave
FolderCall(op, group_name, preset, other, as_copy, before, out) ==
    [op |-> op, group_name |-> group_name, preset |-> preset, other |-> other,
     as_copy |-> as_copy, before |-> before, out |-> out]

FolderOnly ==
    UNCHANGED <<mappings, saved, path, file, last, handler, hlast,
                injector, made, chord, hierarchy, heap>>

\* the functions have not been called on the files yet
NotCalled == folder.call.op \in {"none", "touch"}

\* a preset is saved under a name: touch(path) makes the file
Touch(group_name, preset) ==
    /\ NotCalled
    /\ Cardinality(folder.files) < MaxFiles
    /\ get_preset_path(group_name, preset) \notin folder.files
    /\ folder' = [files |-> folder.files \cup {get_preset_path(group_name, preset)},
                  call |-> FolderCall("touch", group_name, preset, <<>>, FALSE,
                                      folder.files, Named(preset))]
    /\ FolderOnly

\* get_available_preset_name(group_name, preset, as_copy)
GetAvailable(group_name, preset, as_copy) ==
    /\ NotCalled
    /\ folder' = [files |-> folder.files,
                  call |-> FolderCall("get_available_preset_name", group_name, preset,
                                      <<>>, as_copy, folder.files,
                                      get_available_preset_name(folder.files, group_name,
                                                                preset, as_copy))]
    /\ FolderOnly

\* rename_preset(group_name, old_preset_name, new_preset_name)
RenamePreset(group_name, old_preset_name, new_preset_name) ==
    LET r == rename_preset(folder.files, group_name, old_preset_name, new_preset_name)
    IN  /\ NotCalled
        /\ folder' = [files |-> r.files,
                      call |-> FolderCall("rename_preset", group_name, old_preset_name,
                                          new_preset_name, FALSE, folder.files, r.out)]
        /\ FolderOnly

InitFolder ==
    /\ folder = [files |-> {},
                 call |-> FolderCall("none", None, <<>>, <<>>, FALSE, {}, Named(<<>>))]
    /\ NoPreset /\ NoHandlers /\ NoInjector /\ NoEvents /\ NoPipeline /\ NoHeap

NextFolder ==
    \/ \E group_name \in Groups, preset \in FileNames : Touch(group_name, preset)
    \/ \E group_name \in Groups \cup {None}, preset \in RequestedNames, as_copy \in BOOLEAN :
          GetAvailable(group_name, preset, as_copy)
    \/ \E group_name \in Groups \cup {None}, old \in RequestedNames, new \in RequestedNames :
          RenamePreset(group_name, old, new)

SpecFolder == InitFolder /\ [][NextFolder]_vars

-----------------------------------------------------------------------------
(* Preset.dangerously_mapped_btn_left (configs/preset.py). A mapping is    *)
(* what the method reads of it: its combination, its output_symbol and     *)
(* what its get_output_type_code() returns.                                *)

\* evdev.ecodes.BTN_LEFT
BTN_LEFT == 272

\* InputEvent.btn_left(): cls(0, 0, EV_KEY, BTN_LEFT, 1), as an event tuple
btn_left == <<EV_KEY, BTN_LEFT, 1>>

\* InputEvent.type_and_code
type_and_code(e) == <<e[1], e[2]>>

\* the combinations of the mappings: the left button alone, a key alone, and
\* the left button with a key
ButtonCombos == {<<btn_left>>, <<KeyDown>>, <<KeyDown, btn_left>>}

\* the output symbols a mapping can have, None included
OutputSymbols == {None, "BTN_LEFT", "a"}

\* what get_output_type_code() can return: None, or a type and a code
NoTypeCode == <<>>

OutputTypeCodes == {NoTypeCode, type_and_code(btn_left), type_and_code(KeyDown)}

\* str.lower()
lower(symbol) == IF symbol = "BTN_LEFT" THEN "btn_left" ELSE symbol

\* the presets the method is called on
ButtonPresets ==
    UNION {[keys -> [output_symbol : OutputSymbols, type_code : OutputTypeCodes]] :
              keys \in SUBSET ButtonCombos}

\* the loop: the mappings that have an output symbol
with_symbol(ms) == {key \in Keys(ms) : ms[key].output_symbol # None}

\* Preset.dangerously_mapped_btn_left: False when the left button is no
\* combination of the preset; else whether "btn_left" is not among the
\* values or the type and code of the left button are not among them. A
\* string is never equal to a tuple, so each is looked for among its kind
dangerously_mapped_btn_left(ms) ==
    IF <<btn_left>> \notin Keys(ms) THEN FALSE
    ELSE \/ "btn_left" \notin {lower(ms[key].output_symbol) : key \in with_symbol(ms)}
         \/ type_and_code(btn_left) \notin {ms[key].type_code : key \in with_symbol(ms)}

\* preset.dangerously_mapped_btn_left()
DangerouslyMapped ==
    /\ last.op = "init"
    /\ last' = [op |-> "dangerously_mapped_btn_left",
                returned |-> dangerously_mapped_btn_left(mappings)]
    /\ UNCHANGED <<mappings, saved, path, file>>
    /\ PresetOnly

InitButton ==
    /\ mappings \in ButtonPresets
    /\ last = [op |-> "init", returned |-> FALSE]
    /\ saved = Unused /\ path = Unused /\ file = Unused
    /\ NoHandlers /\ NoInjector /\ NoEvents /\ NoPipeline /\ NoFolder /\ NoHeap

NextButton == DangerouslyMapped

SpecButton == InitButton /\ [][NextButton]_vars

-----------------------------------------------------------------------------
(* the properties                                                          *)

\* one combination is a permutation of the other
SameTrigger(c, d) == Len(c) = Len(d) /\ Range(c) = Range(d)

\* the keys of the index that are permutations of a combination
StoredAs(ms, comb) == {key \in Keys(ms) : SameTrigger(key, comb)}

\* the in-memory mappings and the snapshot differ, as dictionaries of values
Differ(ms, sv) ==
    {<<key, Fields(ms[key])>> : key \in Keys(ms)}
        # {<<key, Fields(sv[key])>> : key \in Keys(sv)}

\* C1: in every reachable state, whether the calls succeeded or raised, no
\* two keys of the index are permutations of each other.
C1_NoPermutedKeys ==
    \A k1, k2 \in Keys(mappings) : k1 # k2 => ~ SameTrigger(k1, k2)

\* a rename to a permutation of another key was rejected, and both are stored
C1_Witness ==
    /\ last.op = "rename" /\ last.raised
    /\ Keys(mappings) = {OneKey, Chord}

\* C2: when a key of the index is a permutation of the mapping's combination
\* (the combination itself included), add(mapping) raises and changes
\* nothing: the index, the snapshot and has_unsaved_changes() are as before
\* and the mapping's callback is as it was.
C2_AddRejected ==
    [][last'.op = "add" =>
          \A m \in NewMappings \cup {mappings[key] : key \in Keys(mappings)} :
             (StoredAs(mappings, m.comb) # {} /\ Add(m))
                 => /\ last'.raised
                    /\ mappings' = mappings
                    /\ saved' = saved
                    /\ Differ(mappings', saved') = Differ(mappings, saved)
                    /\ add(mappings, m).m.cb = m.cb]_vars

\* an add was rejected while the chord is stored and was never saved
C2_Witness ==
    /\ last.op = "add" /\ last.raised
    /\ Keys(mappings) = {Chord}
    /\ Differ(mappings, saved)

\* C3: when a stored mapping is renamed and a permutation of the new
\* combination is the key of another entry, the callback raises and the index
\* is unchanged: both entries are stored as before.
C3_RenameRejected ==
    [][last'.op = "rename" =>
          \A key \in Keys(mappings), new \in Combos :
             (StoredAs(mappings, new) \ {key} # {} /\ Rename(key, new))
                 => last'.raised /\ mappings' = mappings]_vars

\* a rename was rejected while both the key and the swapped chord are stored
C3_Witness ==
    /\ last.op = "rename" /\ last.raised
    /\ Keys(mappings) = {OneKey, ChordSwapped}

\* C4: get_mapping of any permutation of a stored key returns the mapping
\* stored under it, and get_mapping returns None exactly for the empty
\* combination and for a combination no permutation of which is a key.
C4_LookupByPermutation ==
    /\ \A key \in Keys(mappings), comb \in Combos :
          SameTrigger(comb, key) => get_mapping(mappings, comb) = mappings[key]
    /\ \A comb \in Combos \cup {<<>>} :
          get_mapping(mappings, comb) = NoMapping
              <=> (comb = <<>> \/ StoredAs(mappings, comb) = {})

\* the chord is stored, its other ordering is not a key, and an edit has
\* gone through get_mapping
C4_Witness ==
    /\ last.op = "edit"
    /\ Keys(mappings) = {Chord}
    /\ get_mapping(mappings, ChordSwapped) = mappings[Chord]
    /\ get_mapping(mappings, OneKey) = NoMapping

\* C5: remove(C) does not raise and leaves the snapshot; it takes out the
\* one entry whose key is a permutation of C and leaves the other entries,
\* and changes nothing when no permutation of C is a key.
C5_RemoveByPermutation ==
    [][last'.op = "remove" =>
          \A comb \in Combos :
             Remove(comb)
                 => /\ ~ last'.raised
                    /\ saved' = saved
                    /\ Keys(mappings') = Keys(mappings) \ StoredAs(mappings, comb)
                    /\ Cardinality(StoredAs(mappings, comb)) <= 1
                    /\ \A key \in Keys(mappings') : mappings'[key] = mappings[key]]_vars

\* a remove has taken the chord out of a preset saved with the key and the
\* chord
C5_Witness ==
    /\ last.op = "remove"
    /\ Keys(saved) = {OneKey, Chord}
    /\ Keys(mappings) = {OneKey}

Saves == last.op = "save" /\ path # None

\* C6: with a path, after save() there are no unsaved changes, and a save()
\* that follows a save() writes nothing.
C6_SaveTwiceWritesOnce ==
    /\ [](Saves => ~ Differ(mappings, saved))
    /\ [][(Saves /\ Save) => (~ last'.wrote /\ file' = file)]_vars

\* a save did not write, over a file that holds the stored mapping
C6_Witness ==
    /\ Saves /\ ~ last.wrote
    /\ file.kind = "object" /\ Len(file.entries) = 1
    /\ Keys(mappings) = {ChordSwapped}

\* the stored mappings that are written by save(): the valid ones, and the
\* invalid ones whose combination is the only stored one of its permutations
Written(ms) ==
    {ms[key] : key \in
        {k \in Keys(ms) :
            \/ ms[k].out # None
            \/ Cardinality({j \in Keys(ms) : SameTrigger(ms[j].comb, ms[k].comb)}) = 1}}

\* C8: a save() that writes the file writes an entry for every valid mapping
\* and for every invalid mapping whose combination is the sole stored one of
\* its permutations, and none for any other.
C8_SaveWrites ==
    [][(last'.wrote /\ Save)
          => /\ file'.kind = "object"
             /\ Len(file'.entries) = Cardinality(Written(mappings))
             /\ Range(file'.entries)
                   = {[key |-> combination_json_str(m.comb), out |-> m.out] :
                         m \in Written(mappings)}]_vars

\* a save has written a mapping without output next to a valid one
C8_Witness ==
    /\ last.op = "save" /\ last.wrote
    /\ Len(file.entries) = 2
    /\ \E i \in 1..2 : file.entries[i].out = None
    /\ \E i \in 1..2 : file.entries[i].out # None

\* the valid mappings of the index, by combination and output
ValidMappings(ms) == {Fields(ms[key]) : key \in {k \in Keys(ms) : is_valid(ms[k])}}

\* C7: with a path, a load() that follows a save() leaves the valid mappings
\* that were held before the save, with their combinations and outputs, and
\* no other valid mapping.
C7_RoundTrip ==
    [][(Saves /\ last'.op = "load" /\ Load) => ValidMappings(mappings') = ValidMappings(mappings)]_vars

\* load() was called with a path that names a file the reader accepts
Loaded ==
    /\ last.op = "load"
    /\ path # None /\ file.kind # "absent"
    /\ ~ disc_raises(path, file)

\* C9: load() over an existing file the reader accepts completes, and then
\* the in-memory mappings are the entries read from the file, each with the
\* callback, and there are no unsaved changes.
C9_LoadReplaces ==
    Loaded =>
        LET read == get_mappings_from_disc(path, file)
        IN  /\ ~ last.raised
            /\ {Fields(mappings[key]) : key \in Keys(mappings)}
                  = {Fields(read[i]) : i \in 1..Len(read)}
            /\ \A key \in Keys(mappings) : mappings[key].cb
            /\ ~ Differ(mappings, saved)

\* C10: load() of a file whose content is no decodable JSON does not raise,
\* and leaves no in-memory mapping and an empty snapshot.
C10_CorruptLoadsEmpty ==
    (/\ last.op = "load"
     /\ path # None
     /\ file.kind \in {"empty", "corrupt", "binary"})
        => (~ last.raised /\ mappings = EmptyDict /\ saved = EmptyDict)

\* the entries of the file for which the factory makes a mapping
Passing(f) == {f.entries[i] : i \in {j \in 1..Len(f.entries) : ~ factory_raises(f.entries[j])}}

\* the entries of the file for which the factory raises ValidationError
Failing(f) == {f.entries[i] : i \in {j \in 1..Len(f.entries) : factory_raises(f.entries[j])}}

\* C11: load() of a file that holds failing entries and passing entries
\* does not raise, and afterwards the in-memory mappings are the passing
\* entries of the file, all of them, and none of the failing.
C11_SkipsFailing ==
    (/\ last.op = "load" /\ path # None
     /\ file.kind = "object"
     /\ Passing(file) # {} /\ Failing(file) # {})
        => /\ ~ last.raised
           /\ {Fields(mappings[key]) : key \in Keys(mappings)}
                 = {[comb |-> combination_from_string(e.key), out |-> e.out] :
                       e \in Passing(file)}

\* the event is one of the events the handler watches
IsWatched(event) == indices_of(handler.input_events, event) # {}

\* C12: occlude_input_event(event) removes one occurrence of the event from
\* the watched events when it is watched; when it is not watched, the list
\* being empty or not, it raises MappingParsingError and leaves the list.
C12_Occlude ==
    [][\A event \in HandlerEvents :
          Occlude(event) =>
             IF IsWatched(event)
             THEN /\ hlast'.error = "none"
                  /\ \E i \in indices_of(handler.input_events, event) :
                        handler'.input_events = RemoveAt(handler.input_events, i)
             ELSE /\ hlast'.error = "MappingParsingError"
                  /\ handler'.input_events = handler.input_events]_vars

C17_Construction ==
    [][hlast'.op = "init" =>
          \A mapping \in HandlerCombinations : \A combination \in wrap_with(mapping) :
             Construct(combination, mapping) =>
                /\ Len(handler'.input_events) = Len(combination)
                /\ \A i \in 1..Len(combination) :
                      LET watched == handler'.input_events[i]
                          event == combination[i]
                      IN  /\ event_tuple(watched) = event_tuple(event)
                          /\ event.value # 0 => (watched.action = "as_key" /\ is_key_event(watched))
                          /\ event.value = 0 => watched.action = event.action
                /\ handler'.sub_handler = None]_vars

\* a handler was made for a moved axis and a key at rest that is marked for
\* recentering
C17_Witness ==
    /\ hlast.op = "init"
    /\ Len(handler.input_events) = 2
    /\ handler.input_events[1] = InputEvent(0, 0, EV_ABS, 1, 1, "as_key")
    /\ handler.input_events[2] = InputEvent(0, 0, EV_KEY, 1, 0, "recenter")

\* the runs of the macro of a code that are executing
Running(code) == {i \in 1..Len(injector.tasks) : injector.tasks[i].macro = code}

\* C14: handle_keycode starts a run of a macro only for an event of value 1
\* whose code has a macro, and starts none while a run of the macro of that
\* code is executing, wherever the earlier run is suspended.
C14_MacroStart ==
    [][\A event \in ArrivingEvents :
          HandleKeycode(event) =>
             /\ injector'.tasks # injector.tasks
                   => (event.value = 1 /\ event.code \in injector.macros)
             /\ Running(event.code) # {} => injector'.tasks = injector.tasks]_vars

\* the two events agree on type, code and value
Agree(e1, e2) == e1.type = e2.type /\ e1.code = e2.code /\ e1.value = e2.value

\* the two events are the same dictionary key
SameKey(e1, e2) == event_eq(e1, e2) /\ event_hash(e1) = event_hash(e2)

\* C15: two InputEvents are equal, and are equal with equal hashes, exactly
\* when they agree on type, code and value, whatever their sec, usec and
\* action; an event and its modify() copy with another sec, usec or action
\* are the same dictionary key.
C15_Identity ==
    /\ [](made.op \in {"pair", "modify"} =>
            /\ event_eq(made.a, made.b) <=> Agree(made.a, made.b)
            /\ SameKey(made.a, made.b) <=> Agree(made.a, made.b))
    /\ [][\A e \in SomeEvents, args \in ModifyArgs :
            (/\ made'.op = "modify"
             /\ args.type = NotGiven /\ args.code = NotGiven /\ args.value = NotGiven
             /\ Modify(e, args))
                => SameKey(e, made'.b)]_vars

\* a copy with another sec, usec and action is equal to its event
C15_Witness ==
    /\ made.op = "modify"
    /\ made.a.sec # made.b.sec /\ made.a.usec # made.b.usec
    /\ made.a.action # made.b.action
    /\ SameKey(made.a, made.b)

\* the source is an event: it has the five attributes, and numbers in them
IsEventObject(src) ==
    \/ src.kind = "InputEvent"
    \/ /\ src.kind = "object"
       /\ \A name \in EventAttributes :
             name \in DOMAIN src.attrs /\ "int" \in DOMAIN src.attrs[name]

\* the source is a string of three numbers with a comma between them
IsEventString(src) ==
    /\ src.kind = "str"
    /\ LET chars == src.chars
           commas == {i \in 1..Len(chars) : chars[i] = ","}
       IN  /\ Cardinality(commas) = 2
           /\ \A i \in (1..Len(chars)) \ commas : chars[i] \in {ToString(n) : n \in Numbers}
           /\ \A i \in commas : i # 1 /\ i # Len(chars) /\ i + 1 \notin commas

\* the source is a sequence of three members, each a number or the digits of
\* one
IsEventTuple(src) ==
    /\ src.kind \in {"tuple", "str"}
    /\ Len(items_of(src)) = 3
    /\ \A i \in 1..3 :
          LET item == items_of(src)[i]
          IN  \/ "int" \in DOMAIN item
              \/ /\ "chars" \in DOMAIN item
                 /\ item.chars # <<>>
                 /\ \A k \in 1..Len(item.chars) : item.chars[k] \in {ToString(n) : n \in Numbers}

\* the call raised InputEventCreationError exactly when told, and else
\* returned an event
FailsWhen(invalid) ==
    made.out.error = (IF invalid THEN InputEventCreationError ELSE "none")

\* C16: from_event, from_string and from_tuple raise InputEventCreationError
\* and nothing else when the source has the wrong arity or fields that are no
\* numbers, and return an event otherwise; validate returns what the first of
\* them, in this order, returns, and raises only when all three raise, so
\* that it returns an event for an event, for a string of three numbers and
\* for a tuple of three numbers, and for no other source.
C16_Constructors ==
    /\ made.op = "from_event" => FailsWhen(~ IsEventObject(made.source))
    /\ made.op = "from_string" => FailsWhen(~ IsEventString(made.source))
    /\ made.op = "from_tuple" => FailsWhen(~ IsEventTuple(made.source))
    /\ made.op = "validate" =>
          LET src == made.source
              outcomes == <<from_event(src), from_string_arg(src), from_tuple(src)>>
              made_by == {i \in 1..3 : outcomes[i].error = "none"}
          IN  /\ src.kind = "InputEvent" => made.out = Made(src.event)
              /\ src.kind # "InputEvent" /\ made_by # {} =>
                    made.out = outcomes[CHOOSE i \in made_by : \A j \in made_by : i <= j]
              /\ made.out.error # "none" <=> made_by = {}
              /\ made.out.error = "none" <=>
                    \/ IsEventObject(src)
                    \/ IsEventString(src)
                    \/ src.kind = "tuple" /\ IsEventTuple(src)

\* the events that were fed, without the repeats
IsNoRepeat(event) == event.value # 2

Presses == SelectSeq(chord.fed, IsNoRepeat)

Down(key) == [code |-> key, value |-> 1]

Up(key) == [code |-> key, value |-> 0]

\* C18: a handler of the chord KEY_A + KEY_B that is fed A down, B down
\* forwards nothing after the first and one key-down after the second; fed
\* the two releases after that, in either order, it forwards one key-up, at
\* the first of them; repeats (value 2) in between forward nothing.
C18_Chord ==
    /\ Presses = <<Down("KEY_A")>> => chord.forwarded = <<>>
    /\ Presses = <<Down("KEY_A"), Down("KEY_B")>> => chord.forwarded = <<1>>
    /\ Presses \in {<<Down("KEY_A"), Down("KEY_B"), Up("KEY_B")>>,
                    <<Down("KEY_A"), Down("KEY_B"), Up("KEY_A")>>,
                    <<Down("KEY_A"), Down("KEY_B"), Up("KEY_B"), Up("KEY_A")>>,
                    <<Down("KEY_A"), Down("KEY_B"), Up("KEY_A"), Up("KEY_B")>>}
          => chord.forwarded = <<1, 0>>

\* the chord was pressed, held and released in the reverse order
C18_Witness ==
    /\ Presses = <<Down("KEY_A"), Down("KEY_B"), Up("KEY_B"), Up("KEY_A")>>
    /\ Len(chord.fed) > Len(Presses)
    /\ chord.forwarded = <<1, 0>>

\* the candidate was notified of the last event
Notified(id) == \E i \in 1..Len(hierarchy.notified) : hierarchy.notified[i] = id

\* the candidate was notified of the last event and consumed it
Consumed(id) == Notified(id) /\ hierarchy.answers[id]

\* C19: of every event, the candidates are notified longest combination
\* first and none twice; a candidate that consumed the event is the last one
\* notified, so that no candidate with a shorter combination is notified of
\* it; a candidate is passed over only behind a consumer; and the event is
\* reported handled exactly when a candidate consumed it, unhandled only
\* when every candidate was notified and declined.
C19_Hierarchy ==
    hierarchy.count > 0 =>
        LET notified == hierarchy.notified
            lengths == hierarchy.lengths
        IN  /\ \A i, j \in 1..Len(notified) :
                  i < j => /\ lengths[notified[i]] >= lengths[notified[j]]
                           /\ notified[i] # notified[j]
            /\ \A i \in 1..Len(notified) :
                  hierarchy.answers[notified[i]] => i = Len(notified)
            /\ \A id, other \in DOMAIN lengths :
                  Consumed(id) /\ lengths[other] < lengths[id] => ~ Notified(other)
            /\ \A id \in DOMAIN lengths :
                  ~ Notified(id) =>
                      \E other \in DOMAIN lengths :
                          Consumed(other) /\ lengths[other] >= lengths[id]
            /\ hierarchy.handled <=> \E id \in DOMAIN lengths : Consumed(id)
            /\ ~ hierarchy.handled =>
                  \A id \in DOMAIN lengths : Notified(id) /\ ~ hierarchy.answers[id]

\* the longer combination was registered last, consumed the event, and the
\* shorter one, which would have consumed it too, was not notified
C19_Witness ==
    /\ hierarchy.count > 0
    /\ hierarchy.lengths = <<1, 2>>
    /\ hierarchy.answers = <<TRUE, TRUE>>
    /\ hierarchy.notified = <<2>>
    /\ hierarchy.handled

\* C20: after Preset.empty() the preset holds no mappings, its path and its
\* saved snapshot are what they were, and has_unsaved_changes() reports
\* True.
C20_Empty ==
    [][(last'.op = "empty" /\ Empty) =>
            /\ mappings' = EmptyDict
            /\ path' = path
            /\ saved' = saved
            /\ has_unsaved_changes(mappings', saved')]_vars

\* C21: when the combination of a stored mapping is changed and no
\* permutation of the new combination is the key of another entry (the new
\* one may be a reordering of the old one), nothing is raised, the mapping
\* is stored under the new combination, the old one is no key any more
\* unless it is the new one, and the number of entries and every other entry
\* are what they were.
C21_RekeyInPlace ==
    [][last'.op = "rename" =>
          \A key \in Keys(mappings), new \in Combos :
             (StoredAs(mappings, new) \ {key} = {} /\ Rename(key, new))
                 => /\ ~ last'.raised
                    /\ new \in Keys(mappings')
                    /\ mappings'[new] = [mappings[key] EXCEPT !.comb = new]
                    /\ new # key => key \notin Keys(mappings')
                    /\ Cardinality(Keys(mappings')) = Cardinality(Keys(mappings))
                    /\ \A other \in Keys(mappings) \ {key} :
                          other \in Keys(mappings') /\ mappings'[other] = mappings[other]]_vars

\* a rename has gone through beside another entry, and the chord is stored
\* in its other order
C21_Witness ==
    /\ last.op = "rename" /\ ~ last.raised
    /\ Keys(mappings) = {OneKey, ChordSwapped}
    /\ mappings[ChordSwapped].comb = ChordSwapped

\* what the step has appended to the uinput
Emitted == SubSeq(injector'.uinput, Len(injector.uinput) + 1, Len(injector'.uinput))

\* C22: handle_keycode appends to what was written before, in the order of
\* arrival: nothing for an event of value 2 and for an event whose code has
\* a macro; for every other event one write followed by one syn, the write
\* carrying the value of the event, to (EV_KEY, mapped code) when the code is
\* in the code mapping and to the type and code of the event when it is not.
\* Nothing else writes to the uinput.
C22_Forwarding ==
    [][IF injector'.arrivals = injector.arrivals
       THEN injector'.uinput = injector.uinput
       ELSE \A event \in ArrivingEvents :
               HandleKeycode(event) =>
                  /\ SubSeq(injector'.uinput, 1, Len(injector.uinput)) = injector.uinput
                  /\ IF event.value = 2 \/ event.code \in injector.macros
                     THEN Emitted = <<>>
                     ELSE /\ Len(Emitted) = 2
                          /\ Emitted[2] = <<"syn">>
                          /\ Emitted[1] =
                                IF event.code \in DOMAIN injector.code_code_mapping
                                THEN <<"write", EV_KEY,
                                       injector.code_code_mapping[event.code], event.value>>
                                ELSE <<"write", event.type, event.code, event.value>>]_vars

\* a press of the mapped code and then a release on an axis code that is not
\* mapped were written, each with its syn
C22_Witness ==
    /\ injector.arrivals = 2
    /\ injector.uinput = <<<<"write", EV_KEY, 4, 1>>, <<"syn">>,
                           <<"write", EV_ABS, 2, 0>>, <<"syn">>>>

\* the name ends in a space and a number: what is before them, and the number
EndsInNumber(name, base, number) ==
    \E at \in 2..(Len(name) - 1) :
        /\ name[at] = " "
        /\ base = SubSeq(name, 1, at - 1)
        /\ IsInt(SubSeq(name, at + 1, Len(name)))
        /\ number = ParseInt(SubSeq(name, at + 1, Len(name)))

\* there is a preset file of the name in the group
Taken(files, group_name, name) == <<group_name, name>> \in files

\* the name is base and the first number from start on that is not taken
FirstFreeFrom(files, group_name, base, start, name) ==
    \E n \in start..(start + Cardinality(files)) :
        /\ name = base \o <<" ">> \o str(n)
        /\ \A k \in start..(n - 1) : Taken(files, group_name, base \o <<" ">> \o str(k))

\* C23: get_available_preset_name of a group and a name returns a name no
\* preset file of the group has and changes no file: the name asked for,
\* without the whitespace around it, when that is free, and else the name
\* with the first free number, counted from 2 or from the number the name
\* ends in plus one. rename_preset to the same name changes nothing; to
\* another name it moves the preset to a name that no file had, and every
\* other file is there as before; when it raises, no file has changed.
C23_AvailableName ==
    LET call == folder.call
        before == call.before
        asked == strip(call.preset)
        old == <<call.group_name, call.preset>>
    IN  /\ (call.op = "get_available_preset_name" /\ call.group_name # None) =>
              /\ call.out.error = "none"
              /\ ~ Taken(before, call.group_name, call.out.name)
              /\ folder.files = before
              /\ ~ call.as_copy =>
                    IF ~ Taken(before, call.group_name, asked)
                    THEN call.out.name = asked
                    ELSE \/ \E base \in {SubSeq(asked, 1, n) : n \in 1..Len(asked)},
                               number \in 0..10 :
                               /\ EndsInNumber(asked, base, number)
                               /\ FirstFreeFrom(before, call.group_name, base,
                                                number + 1, call.out.name)
                         \/ /\ \A base \in {SubSeq(asked, 1, n) : n \in 1..Len(asked)},
                                  number \in 0..10 : ~ EndsInNumber(asked, base, number)
                            /\ FirstFreeFrom(before, call.group_name, asked, 2,
                                             call.out.name)
        /\ call.op = "rename_preset" =>
              IF call.other = call.preset
              THEN folder.files = before /\ call.out = Named(call.preset)
              ELSE /\ before \ {old} \subseteq folder.files
                   /\ call.out.error # "none" => folder.files = before
                   /\ call.out.error = "none" =>
                         /\ call.group_name # None
                         /\ old \in before
                         /\ ~ Taken(before, call.group_name, call.out.name)
                         /\ folder.files =
                               (before \ {old}) \cup {<<call.group_name, call.out.name>>}
                         /\ Cardinality(folder.files) = Cardinality(before)

\* "a" was renamed to "a 2" while "a 2" and "a 3" were there: it is "a 4"
C23_Witness ==
    /\ folder.call.op = "rename_preset"
    /\ folder.call.preset = <<"a">>
    /\ folder.call.other = <<"a", " ", "2">>
    /\ folder.call.before = {<<"keyboard", <<"a">>>>, <<"keyboard", <<"a", " ", "2">>>>,
                             <<"keyboard", <<"a", " ", "3">>>>}
    /\ folder.call.out = Named(<<"a", " ", "4">>)
    /\ folder.files = {<<"keyboard", <<"a", " ", "2">>>>, <<"keyboard", <<"a", " ", "3">>>>,
                       <<"keyboard", <<"a", " ", "4">>>>}

\* the mapping outputs the left button: by its symbol, or by its output type
\* and code
OutputsBtnLeft(m) ==
    \/ m.output_symbol \in {"BTN_LEFT", "btn_left"}
    \/ m.type_code = <<EV_KEY, BTN_LEFT>>

\* C24: dangerously_mapped_btn_left() returns True exactly when a mapping of
\* the single event BTN_LEFT down is in the preset and no mapping of the
\* preset outputs BTN_LEFT, by symbol or by output type and code.
C24_BtnLeft ==
    last.op = "dangerously_mapped_btn_left" =>
        (last.returned <=>
            /\ <<btn_left>> \in Keys(mappings)
            /\ \A key \in Keys(mappings) : ~ OutputsBtnLeft(mappings[key]))

-----------------------------------------------------------------------------
(* a preset whose file is written by its own save() only                   *)

\* Preset() or Preset(path) of a path where there is no file yet
InitOwnFile ==
    /\ mappings = EmptyDict
    /\ saved = EmptyDict
    /\ path \in {None, PresetPath}
    /\ file = NoFile("absent")
    /\ last = Call("init", FALSE, FALSE)
    /\ NoHandlers /\ NoInjector /\ NoEvents /\ NoPipeline /\ NoFolder /\ NoHeap

\* path assignment, add, remove, rename, load and save
NextOwnFile ==
    \/ \E m \in NewMappings \cup {mappings[key] : key \in Keys(mappings)} : Add(m)
    \/ \E comb \in Combos : Remove(comb)
    \/ \E comb \in Combos, new \in Combos : Rename(comb, new)
    \/ \E p \in {None, PresetPath} : SetPath(p)
    \/ Load
    \/ Save

SpecOwnFile == InitOwnFile /\ [][NextOwnFile]_vars

\* the mappings the file stores: one per entry, none when there is no file or
\* an empty one
StoredInFile(f) ==
    {[comb |-> combination_from_string(f.entries[i].key), out |-> f.entries[i].out] :
        i \in 1..Len(f.entries)}

\* C25: whenever the preset has a path and its file is written by its own
\* save() only, the saved snapshot is the set of mappings stored in the file,
\* and has_unsaved_changes() is true exactly when the in-memory mappings
\* differ from the stored ones.
C25_SnapshotIsFile ==
    path # None =>
        /\ {Fields(saved[key]) : key \in Keys(saved)} = StoredInFile(file)
        /\ has_unsaved_changes(mappings, saved) <=>
               {Fields(mappings[key]) : key \in Keys(mappings)} # StoredInFile(file)

-----------------------------------------------------------------------------
(* Mapping objects: which of them carry the rename callback                *)

\* the Mapping objects there are at a time, at most
MaxObjects == 3

\* the Mappings a caller makes here: all of them valid
NewObjects == [comb : Combos, out : {"a"}, cb : {FALSE}]

\* the preset files at construction: none of a mapping, one, two of
\* combinations that are permutations of each other
HeapFiles ==
    {save_entries(list) : list \in {<<>>,
                                    <<[comb |-> OneKey, out |-> "a"]>>,
                                    <<[comb |-> Chord, out |-> "a"],
                                      [comb |-> ChordSwapped, out |-> "a"]>>}}

\* the objects a dictionary holds
IdsOf(d) == {d[key] : key \in Keys(d)}

\* a dictionary of objects as a dictionary of mappings
deref(objs, d) == [key \in Keys(d) |-> objs[d[key]]]

RECURSIVE make(_, _)
\* new objects, one for each mapping of the list
make(objs, list) ==
    IF Len(list) = 0 THEN [objs |-> objs, ids |-> <<>>]
    ELSE LET id == Cardinality(Keys(objs)) + 1
             r == make(Put(objs, id, Head(list)), Tail(list))
         IN  [objs |-> r.objs, ids |-> <<id>> \o r.ids]

\* the objects that are left: those of the index, of the snapshot, and those
\* the caller holds, numbered anew in the order they have
collect(h) ==
    LET live == IdsOf(h.index) \cup IdsOf(h.snapshot) \cup h.held
        number(id) == Cardinality({j \in live : j <= id})
        numbered_as(n) == CHOOSE id \in live : number(id) = n
    IN  [h EXCEPT !.objs = [n \in 1..Cardinality(live) |-> h.objs[numbered_as(n)]],
                  !.index = [key \in Keys(h.index) |-> number(h.index[key])],
                  !.snapshot = [key \in Keys(h.snapshot) |-> number(h.snapshot[key])],
                  !.held = {number(id) : id \in h.held}]

\* there are no more objects than MaxObjects
fits(h) == Cardinality(Keys(h.objs)) <= MaxObjects

\* mapping.set_combination_changed_callback(self._combination_changed_callback)
with_callback(objs, id) == [objs EXCEPT ![id] = set_combination_changed_callback(@)]

\* a removal that leaves the callback where it is
keeps_callback(objs, ids) == objs

\* mapping.remove_combination_changed_callback(), for each of the objects
without_callback(objs, ids) ==
    [id \in Keys(objs) |->
        IF id \in ids THEN remove_combination_changed_callback(objs[id]) ELSE objs[id]]

\* Preset.add of the object
object_add(h, id) ==
    IF add_raises(deref(h.objs, h.index), h.objs[id].comb)
    THEN [h |-> h, raised |-> TRUE]
    ELSE [h |-> [h EXCEPT !.objs = with_callback(h.objs, id),
                          !.index = Put(h.index, h.objs[id].comb, id),
                          !.held = h.held \ {id}],
          raised |-> FALSE]

\* Preset.remove: the object that was popped loses the callback; the caller
\* may hold it
object_remove(h, comb) ==
    LET key == remove_key(deref(h.objs, h.index), comb)
    IN  IF key \in Keys(h.index)
        THEN [h EXCEPT !.objs = without_callback(h.objs, {h.index[key]}),
                       !.index = Without(h.index, key),
                       !.held = h.held \cup {h.index[key]}]
        ELSE h

\* Preset.empty
object_empty(h) ==
    [h EXCEPT !.objs = without_callback(h.objs, IdsOf(h.index)),
              !.index = EmptyDict,
              !.held = h.held \cup IdsOf(h.index)]

\* Preset.clear
object_clear(h) == [object_empty(h) EXCEPT !.snapshot = EmptyDict, !.path = None]

RECURSIVE ids_as_dict(_, _, _)
\* mappings[mapping.event_combination] = mapping, for each of the objects
ids_as_dict(objs, ids, acc) ==
    IF Len(ids) = 0 THEN acc
    ELSE ids_as_dict(objs, Tail(ids), Put(acc, objs[Head(ids)].comb, Head(ids)))

RECURSIVE object_load_adds(_, _)
\* Preset.load, the loop: self.add(mapping.copy()) for the objects of the
\* snapshot, until one raises
object_load_adds(h, ids) ==
    IF Len(ids) = 0 THEN [h |-> h, raised |-> FALSE]
    ELSE LET c == make(h.objs, <<copy(h.objs[Head(ids)])>>)
             r == object_add([h EXCEPT !.objs = c.objs], c.ids[1])
         IN  IF r.raised THEN [h |-> h, raised |-> TRUE]
             ELSE object_load_adds(r.h, Tail(ids))

\* Preset.load, with a path and a file
object_load(h) ==
    LET read == make(h.objs, get_mappings_from_disc(h.path, [kind |-> "object", entries |-> h.entries]))
        e == object_empty([h EXCEPT !.objs = read.objs,
                                    !.snapshot = ids_as_dict(read.objs, read.ids, EmptyDict)])
    IN  object_load_adds(e, read.ids)

\* Preset.save writes: there is a path and there are unsaved changes
object_save_writes(h) ==
    /\ h.path # None
    /\ has_unsaved_changes(deref(h.objs, h.index), deref(h.objs, h.snapshot))

\* Preset.save, when it writes: the entries of the mappings that are not
\* skipped, and a copy without callback of each of them as the snapshot
object_save(h) ==
    LET written == save_written(deref(h.objs, h.index))
        copies == make(h.objs, [i \in 1..Len(written) |-> copy(written[i])])
        objs == without_callback(copies.objs, Range(copies.ids))
    IN  [h EXCEPT !.objs = objs,
                  !.snapshot = ids_as_dict(objs, copies.ids, EmptyDict),
                  !.entries = save_entries(written)]

\* op: the method; raised: it ended in an exception; id: the object whose
\* combination was set, when one was; indexed: it was a value of the index;
\* old: the combination it had
HeapCall(op, raised, id, indexed, old) ==
    [op |-> op, raised |-> raised, id |-> id, indexed |-> indexed, old |-> old]

\* a call on the Mapping objects leaves everything else
HeapOnly ==
    UNCHANGED <<mappings, saved, path, file, last, handler, hlast,
                injector, made, chord, hierarchy, folder>>

\* m = Mapping(...)
MakeObject(m) ==
    /\ LET r == make(heap.objs, <<m>>)
       IN  /\ fits([heap EXCEPT !.objs = r.objs])
           /\ heap' = [heap EXCEPT !.objs = r.objs,
                                   !.held = heap.held \cup {r.ids[1]},
                                   !.call = HeapCall("make", FALSE, 0, FALSE, NoEvent)]
    /\ HeapOnly

\* preset.add(m), of a mapping the caller holds or of a stored one
AddObject(id) ==
    /\ id \in heap.held \cup IdsOf(heap.index)
    /\ LET r == object_add(heap, id)
       IN  heap' = [r.h EXCEPT !.call = HeapCall("add", r.raised, 0, FALSE, NoEvent)]
    /\ HeapOnly

\* preset.remove(combination)
RemoveObject(comb) ==
    /\ heap' = [object_remove(heap, comb) EXCEPT !.call = HeapCall("remove", FALSE, 0, FALSE, NoEvent)]
    /\ HeapOnly

\* preset.empty()
EmptyObjects ==
    /\ heap' = [object_empty(heap) EXCEPT !.call = HeapCall("empty", FALSE, 0, FALSE, NoEvent)]
    /\ HeapOnly

\* preset.clear()
ClearObjects ==
    /\ heap' = [collect(object_clear(heap)) EXCEPT !.call = HeapCall("clear", FALSE, 0, FALSE, NoEvent)]
    /\ HeapOnly

\* preset.load(): FileNotFoundError without a path
LoadObjects ==
    /\ LET r == object_load(heap)
       IN  IF heap.path = None
           THEN heap' = [heap EXCEPT !.call = HeapCall("load", TRUE, 0, FALSE, NoEvent)]
           ELSE /\ fits(collect(r.h))
                /\ heap' = [collect(r.h) EXCEPT !.call = HeapCall("load", r.raised, 0, FALSE, NoEvent)]
    /\ HeapOnly

\* preset.save()
SaveObjects ==
    /\ IF object_save_writes(heap)
       THEN /\ fits(collect(object_save(heap)))
            /\ heap' = [collect(object_save(heap))
                           EXCEPT !.call = HeapCall("save", FALSE, 0, FALSE, NoEvent)]
       ELSE heap' = [heap EXCEPT !.call = HeapCall("save", FALSE, 0, FALSE, NoEvent)]
    /\ HeapOnly

\* m.event_combination = new, of any Mapping object there is: one of the
\* index, one that was removed, a copy of the snapshot.
\* Mapping.__setattr__ returns when the combination is the one it has, calls
\* the callback when it has one, and sets the field when that did not raise
RenameObject(id, new) ==
    LET m == heap.objs[id]
        old == m.comb
        called == m.cb /\ new # old
        raised == called /\ callback_raises(deref(heap.objs, heap.index), new, old)
    IN  /\ id \in Keys(heap.objs)
        /\ heap' = [heap EXCEPT
                      !.index = IF called /\ ~ raised
                                THEN callback_rekey(heap.index, new, old) ELSE @,
                      !.objs = IF raised THEN @ ELSE [@ EXCEPT ![id].comb = new],
                      !.call = HeapCall("rename", raised, id, id \in IdsOf(heap.index), old)]
        /\ HeapOnly

\* the caller lets go of a mapping it holds
DropObject(id) ==
    /\ id \in heap.held
    /\ heap' = [collect([heap EXCEPT !.held = heap.held \ {id}])
                   EXCEPT !.call = HeapCall("drop", FALSE, 0, FALSE, NoEvent)]
    /\ HeapOnly

\* Preset(path), of a path with a file
InitHeap ==
    /\ heap \in [objs : {EmptyDict}, index : {EmptyDict}, snapshot : {EmptyDict},
                 held : {{}}, path : {PresetPath}, entries : HeapFiles,
                 call : {HeapCall("init", FALSE, 0, FALSE, NoEvent)}]
    /\ NoPreset /\ NoHandlers /\ NoInjector /\ NoEvents /\ NoPipeline /\ NoFolder

NextHeap ==
    \/ \E m \in NewObjects : MakeObject(m)
    \/ \E id \in 1..MaxObjects : AddObject(id)
    \/ \E comb \in Combos : RemoveObject(comb)
    \/ EmptyObjects
    \/ ClearObjects
    \/ LoadObjects
    \/ SaveObjects
    \/ \E id \in 1..MaxObjects, new \in Combos : RenameObject(id, new)
    \/ \E id \in 1..MaxObjects : DropObject(id)

SpecHeap == InitHeap /\ [][NextHeap]_vars

\* the mappings of the snapshot, as values
SnapshotValues(h) == deref(h.objs, h.snapshot)

\* a call that changes the mappings in memory: a mapping is made, added,
\* removed or let go of, the index is emptied, a mapping that is no copy of
\* the snapshot gets another combination
InMemoryEdit(h, call) ==
    \/ call.op \in {"make", "add", "remove", "empty", "drop"}
    \/ call.op = "rename" /\ call.id \notin IdsOf(h.snapshot)

\* C26: a Mapping object carries the preset's rename callback exactly while
\* it is a value of the preset's index, so no removed mapping and no copy of
\* the snapshot carries it; setting the combination of a mapping that is no
\* value of the index leaves the index as it is, and a change of the mappings
\* in memory leaves the snapshot as it is.
C26_Callback ==
    /\ [](/\ \A id \in Keys(heap.objs) :
                heap.objs[id].cb <=> id \in IdsOf(heap.index)
          /\ \A id \in IdsOf(heap.snapshot) \cup heap.held : ~ heap.objs[id].cb
          /\ IdsOf(heap.snapshot) \cap IdsOf(heap.index) = {})
    /\ [][/\ (heap'.call.op = "rename" /\ ~ heap'.call.indexed) =>
                 /\ heap'.index = heap.index
                 /\ deref(heap'.objs, heap'.index) = deref(heap.objs, heap.index)
          /\ InMemoryEdit(heap, heap'.call) =>
                 SnapshotValues(heap') = SnapshotValues(heap)]_vars

\* a mapping that was removed got the combination of a stored mapping, while
\* there is a snapshot: nothing was raised
C26_Witness ==
    /\ heap.call.op = "rename"
    /\ ~ heap.call.raised
    /\ heap.call.id \in heap.held
    /\ heap.objs[heap.call.id].comb # heap.call.old
    /\ heap.objs[heap.call.id].comb \in Keys(heap.index)
    /\ Keys(heap.snapshot) # {}

====
